---- MODULE Spec2Model ----
(***************************************************************************)
(* State-machine model of the tangent client core: the bounded undo/redo   *)
(* history log (packages/core/src/history.ts), the component registry and  *)
(* the save-reconciliation protocol of TangentProviderDev (the provider    *)
(* source found in playground-next/src/components/Hero.tsx from line 41),  *)
(* and the Value Store it calls.                                           *)
(*                                                                         *)
(* JavaScript arrays are 0-based and TLA+ sequences 1-based: the JS        *)
(* expression history[historyIndex] is history[historyIndex + 1] here.     *)
(* A nullable result is a sequence of length 0 (null) or 1.                *)
(***************************************************************************)
EXTENDS Integers, Sequences, FiniteSets, TLC

VARIABLES
    history,        \* history.ts: const history: HistoryEntry[]
    historyIndex,   \* history.ts: let historyIndex
    now,            \* the value Date.now() returns
    registrations,  \* useState<Map<string, TangentRegistration>>, in Map order
    store,          \* the Value Store: entity identifier -> configuration
    historyState,   \* useState<HistoryState>
    isSaving,       \* useState(false)
    batch,          \* the saveAll / saveSection call that is suspended or has just returned
    calls,          \* the onUpdate and onSave calls made by the last handler that ran
    saved,          \* the (id, key, value) of every onSave call that resolved
    view,           \* driver: the registrations of the render whose closures it calls
    mounted,        \* driver: the identifiers of the components that are mounted
    microtasks,     \* driver: the queueMicrotask callbacks that have not run yet
    snap,           \* driver: the registry and the store before and after its edits
    ret,            \* driver: its last call and the result
    hval,           \* driver: the value of the one key it edits, or its count of calls
    isDev,          \* process.env.NODE_ENV === 'development'
    fetches,        \* the requests of handleSave that await their response
    refs            \* useTangentDev: idRef and filePathRef of each mounted component

\* the state of the provider, untouched by the drivers of the log alone
cvars == <<registrations, store, historyState, isSaving, batch, calls, saved,
           view, mounted, microtasks, snap, isDev, fetches, refs>>

\* what the drivers keep for themselves: no handler of the provider reads or
\* writes it
dvars == <<saved, view, mounted, microtasks, snap, ret, hval, isDev, fetches, refs>>

vars == <<history, historyIndex, now, registrations, store, historyState,
          isSaving, batch, calls, saved, view, mounted, microtasks, snap, ret,
          hval, isDev, fetches, refs>>

----------------------------------------------------------------------------
(* Bounds of the model *)

MaxPushes == 5      \* HistSpec: number of pushHistory calls
MaxOverflow == 2    \* CapSpec: edits recorded beyond MAX_HISTORY
MaxLog == 1         \* Spec, KeySpec: edits are recorded while the log is shorter
MaxEdits == 3       \* RoundTripSpec: number of edits made, undone and redone
MaxStaleLog == 3    \* StaleSpec: edits are recorded while the log is shorter
MaxGoneLog == 2     \* GoneSpec: edits are recorded while the log is shorter
MaxQueued == 2      \* MountSpec: register calls waiting in the microtask queue
MaxLiveLog == 0     \* LiveSpec: edits are recorded while the log is shorter
MaxFetches == 2     \* HookSpec: requests of handleSave awaiting their response
MaxApiLog == 1      \* ApiSpec: edits are recorded while the log is shorter
MaxSavedLog == 1    \* SavedSpec: edits are recorded while the log is shorter
MaxLifeLog == 2     \* LifeSpec: edits are recorded while the log is shorter
MaxResetLog == 1    \* ResetSpec: edits are recorded while the log is shorter

Ids == {"A", "B"}
Keys == {"a", "b"}
Values == {1, 2}

\* JavaScript's undefined, distinct from every tunable value
Undefined == 0

----------------------------------------------------------------------------
(* history.ts *)

MAX_HISTORY == 100

\* the HistoryEntry literal pushed by pushHistory
HistoryEntry(id, key, oldValue, newValue) ==
    [id |-> id, key |-> key, oldValue |-> oldValue, newValue |-> newValue,
     timestamp |-> now]

\* "Remove any future entries if we're not at the end"
SpliceNever(h, i) == h

Splice(h, i) ==
    IF i < Len(h) - 1 THEN SubSeq(h, 1, i + 1) ELSE h

\* "Limit history size": the array after the optional shift()
LimitNever(h) == h

Limit(h) ==
    IF Len(h) > MAX_HISTORY THEN Tail(h) ELSE h

\* the else branch of the size limit: historyIndex++ only when nothing was shifted
IndexAlwaysAdvances(h, i) == i + 1

IndexBackOnShift(h, i) ==
    IF Len(h) > MAX_HISTORY THEN i - 1 ELSE i + 1

IndexAfterPush(h, i) ==
    IF Len(h) > MAX_HISTORY THEN i ELSE i + 1

pushHistory(id, key, oldValue, newValue) ==
    LET pushed == Append(Splice(history, historyIndex),
                         HistoryEntry(id, key, oldValue, newValue))
    IN  /\ history' = Limit(pushed)
        /\ historyIndex' = IndexAfterPush(pushed, historyIndex)

canUndoAt(i) == i >= 0

canUndo == canUndoAt(historyIndex)

canRedoAt(h, i) == i < Len(h) - 1

canRedo == canRedoAt(history, historyIndex)

\* what undo() returns, and its effect on the cursor
UndoResult(h, i) ==
    IF ~canUndoAt(i) THEN <<>> ELSE <<h[i + 1]>>

UndoIndexUnguarded(i) == i - 1

UndoIndex(i) ==
    IF ~canUndoAt(i) THEN i ELSE i - 1

undoHistory ==
    /\ historyIndex' = UndoIndex(historyIndex)
    /\ UNCHANGED history

\* what redo() returns, and its effect on the cursor
RedoResult(h, i) ==
    IF ~canRedoAt(h, i) THEN <<>> ELSE <<h[i + 2]>>

RedoIndexStays(h, i) == i

RedoIndex(h, i) ==
    IF ~canRedoAt(h, i) THEN i ELSE i + 1

redoHistory ==
    /\ historyIndex' = RedoIndex(history, historyIndex)
    /\ UNCHANGED history

getHistoryState ==
    [canUndo |-> canUndo, canRedo |-> canRedo, count |-> Len(history)]

clearHistory ==
    /\ history' = <<>>
    /\ historyIndex' = -1

Returned(op, val) == [op |-> op, val |-> val]

----------------------------------------------------------------------------
(* HistSpec: the history log driven directly, every call at its own instant, *)
(* with arbitrary entries.                                                   *)

\* the module state when the bundle is loaded, whatever the build
Boot ==
    /\ history = <<>>
    /\ historyIndex = -1
    /\ now = 0
    /\ ret = Returned("init", <<>>)
    /\ hval = 0
    /\ registrations = <<>>
    /\ store = <<>>
    /\ historyState = [canUndo |-> FALSE, canRedo |-> FALSE]
    /\ isSaving = FALSE
    /\ batch = <<>>
    /\ calls = <<>>
    /\ saved = {}
    /\ view = <<>>
    /\ mounted = {}
    /\ microtasks = <<>>
    /\ snap = <<>>
    /\ fetches = <<>>
    /\ refs = <<>>

\* a development build: TangentProvider renders TangentProviderDev
Init == Boot /\ isDev = TRUE

HPush ==
    /\ now < MaxPushes
    /\ \E id \in Ids, key \in Keys :
          pushHistory(id, key, Undefined, 1)
    /\ now' = now + 1
    /\ ret' = Returned("pushHistory", <<>>)
    /\ UNCHANGED <<hval, cvars>>

HUndo ==
    /\ undoHistory
    /\ ret' = Returned("undo", UndoResult(history, historyIndex))
    /\ UNCHANGED <<now, hval, cvars>>

HRedo ==
    /\ redoHistory
    /\ ret' = Returned("redo", RedoResult(history, historyIndex))
    /\ UNCHANGED <<now, hval, cvars>>

HClear ==
    /\ clearHistory
    /\ ret' = Returned("clearHistory", <<>>)
    /\ UNCHANGED <<now, hval, cvars>>

HistNext == HPush \/ HUndo \/ HRedo \/ HClear

HistSpec == Init /\ [][HistNext]_vars

----------------------------------------------------------------------------
(* CapSpec: the history log driven up to and past its capacity.  The driver  *)
(* edits one key by increments, applies what undo and redo return as the     *)
(* coordinator does, and makes all its calls within one clock reading.       *)
(* pushHistory, undo, redo and clearHistory never inspect an entry's fields. *)

CPush ==
    /\ hval < MAX_HISTORY + MaxOverflow
    /\ pushHistory("A", "a", hval, hval + 1)
    /\ hval' = hval + 1
    /\ ret' = Returned("pushHistory", <<>>)
    /\ UNCHANGED <<now, cvars>>

CUndo ==
    LET entry == UndoResult(history, historyIndex)
    IN  /\ undoHistory
        /\ ret' = Returned("undo", entry)
        /\ hval' = IF entry = <<>> THEN hval ELSE entry[1].oldValue
        /\ UNCHANGED <<now, cvars>>

CRedo ==
    LET entry == RedoResult(history, historyIndex)
    IN  /\ redoHistory
        /\ ret' = Returned("redo", entry)
        /\ hval' = IF entry = <<>> THEN hval ELSE entry[1].newValue
        /\ UNCHANGED <<now, cvars>>

CClear ==
    /\ clearHistory
    /\ ret' = Returned("clearHistory", <<>>)
    /\ UNCHANGED <<now, hval, cvars>>

CapNext == CPush \/ CUndo \/ CRedo \/ CClear

CapSpec == Init /\ [][CapNext]_vars

----------------------------------------------------------------------------
(* EvictSpec: edits recorded one after the other into an empty log, then    *)
(* undone one after the other.                                              *)

ERecord ==
    /\ ret.op \in {"init", "pushHistory"}
    /\ CPush

EUndo ==
    /\ ret.op \in {"pushHistory", "undo"}
    /\ CUndo

EvictNext == ERecord \/ EUndo

EvictSpec == Init /\ [][EvictNext]_vars

----------------------------------------------------------------------------
(* Configurations: a TangentConfig is a function from the keys it has to    *)
(* their values.  Object.keys and Map iteration follow insertion order; the *)
(* keys of a configuration are enumerated here in the fixed order KeyOrder. *)

KeyOrder == <<"a", "b">>

EmptyConfig == [k \in {} |-> Undefined]

\* cfg[key] in JavaScript: undefined when the key is missing
Get(cfg, key) == IF key \in DOMAIN cfg THEN cfg[key] ELSE Undefined

\* { ...cfg, [key]: value }
Put(cfg, key, value) ==
    [k \in DOMAIN cfg \cup {key} |-> IF k = key THEN value ELSE cfg[k]]

\* the default configurations components are declared with
DefaultConfigs == {[k \in {"a"} |-> 1], [k \in Keys |-> IF k = "a" THEN 1 ELSE 2]}

----------------------------------------------------------------------------
(* The Value Store (packages/core/src/store), as its contract describes it: *)
(* get returns the stored configuration or nothing, set replaces an entry,  *)
(* update merges one key into an entry.                                     *)

getStoredConfig(s, id) == IF id \in DOMAIN s THEN <<s[id]>> ELSE <<>>

setStoredConfig(s, id, cfg) ==
    [x \in DOMAIN s \cup {id} |-> IF x = id THEN cfg ELSE s[x]]

updateStoredConfigReplaces(s, id, key, value) ==
    setStoredConfig(s, id, [k \in {key} |-> value])

updateStoredConfig(s, id, key, value) ==
    setStoredConfig(s, id,
        Put(IF id \in DOMAIN s THEN s[id] ELSE EmptyConfig, key, value))

----------------------------------------------------------------------------
(* The registry: a Map, kept as the sequence of its records in Map order *)

MapHas(m, id) == \E i \in 1..Len(m) : m[i].id = id

MapIndex(m, id) == CHOOSE i \in 1..Len(m) : m[i].id = id

MapGet(m, id) == m[MapIndex(m, id)]

\* Map.prototype.set: an existing key keeps its place
MapSet(m, rec) ==
    IF MapHas(m, rec.id) THEN [m EXCEPT ![MapIndex(m, rec.id)] = rec]
    ELSE Append(m, rec)

MapDeleteAll(m, id) == <<>>

MapDelete(m, id) == SelectSeq(m, LAMBDA r : r.id # id)

MapIds(m) == {m[i].id : i \in 1..Len(m)}

RECURSIVE Concat(_)
Concat(ss) == IF ss = <<>> THEN <<>> ELSE Head(ss) \o Concat(Tail(ss))

HistoryStateNeverRedo(h, i) == [canUndo |-> canUndoAt(i), canRedo |-> FALSE]

\* updateHistoryState: the {canUndo, canRedo} of a log h with cursor i
HistoryStateOf(h, i) == [canUndo |-> canUndoAt(i), canRedo |-> canRedoAt(h, i)]

\* the keys the unsaved-change computation visits for one record
ChangeKeys(reg) ==
    SelectSeq(KeyOrder, LAMBDA k : k \in DOMAIN reg.currentConfig)

\* "Calculate unsaved changes": the UnsavedChange records of one registration
ChangesOf(reg) ==
    LET dirty == SelectSeq(ChangeKeys(reg),
                    LAMBDA k : Get(reg.currentConfig, k) # Get(reg.sourceConfig, k))
    IN  [n \in 1..Len(dirty) |->
            [id |-> reg.id, key |-> dirty[n],
             oldValue |-> Get(reg.sourceConfig, dirty[n]),
             newValue |-> Get(reg.currentConfig, dirty[n])]]

UnsavedChangesOf(m) == Concat([i \in 1..Len(m) |-> ChangesOf(m[i])])

unsavedChanges == UnsavedChangesOf(registrations)

\* register: the record stored, given what the Value Store holds
RegisteredFromDefaults(m, stored, id, defaults) ==
    [id |-> id, originalConfig |-> defaults, currentConfig |-> defaults,
     sourceConfig |-> defaults]

RegisteredMerged(m, stored, id, defaults) ==
    [id |-> id, originalConfig |-> defaults,
     currentConfig |->
        IF stored = <<>> THEN defaults
        ELSE [k \in DOMAIN defaults \cup DOMAIN stored[1] |->
                 IF k \in DOMAIN stored[1] THEN stored[1][k] ELSE defaults[k]],
     sourceConfig |-> defaults]

Registered(m, stored, id, defaults) ==
    [id |-> id, originalConfig |-> defaults,
     currentConfig |-> IF stored = <<>> THEN defaults ELSE stored[1],
     sourceConfig |-> defaults]

Pending(b) == b # <<>> /\ b[1].status = "pending"

\* the record of a call that has returned is kept until the next handler runs
Live(b) == IF Pending(b) THEN b ELSE <<>>

OnUpdateSaves(id, key, value) == [fn |-> "onSave", id |-> id, key |-> key, value |-> value]

\* a call of reg.onUpdate(key, value) and of reg.onSave(key, value)
OnUpdate(id, key, value) == [fn |-> "onUpdate", id |-> id, key |-> key, value |-> value]

OnSave(c) == [fn |-> "onSave", id |-> c.id, key |-> c.key, value |-> c.newValue]

NotifiedNever(m, id, key, value) == <<>>

NotifiedAlways(m, id, key, value) == <<OnUpdate(id, key, value)>>

\* "if (reg) { ... reg.onUpdate(key, value) }" inside the functional update
Notified(m, id, key, value) ==
    IF MapHas(m, id) THEN <<OnUpdate(id, key, value)>> ELSE <<>>

register(id, defaults) ==
    LET storedConfig == getStoredConfig(store, id)
    IN  /\ store' = IF storedConfig = <<>>
                    THEN setStoredConfig(store, id, defaults) ELSE store
        /\ registrations' =
              MapSet(registrations, Registered(registrations, storedConfig, id, defaults))
        /\ calls' = <<>>
        /\ batch' = Live(batch)
        /\ UNCHANGED <<history, historyIndex, now, historyState, isSaving>>

unregister(id) ==
    /\ registrations' = MapDelete(registrations, id)
    /\ calls' = <<>>
    /\ batch' = Live(batch)
    /\ UNCHANGED <<history, historyIndex, now, store, historyState, isSaving>>

WithCurrentKept(m, id, key, value) == m

\* the functional update shared by updateValue, undo and redo: the record of
\* id, if there is one, gets value at key in its currentConfig
WithCurrent(m, id, key, value) ==
    IF MapHas(m, id)
    THEN MapSet(m, [MapGet(m, id) EXCEPT
                       !.currentConfig = Put(@, key, value)])
    ELSE m

\* "registration?.currentConfig[key]", read from the registrations the
\* closure of updateValue captured
OldValue(seen, id, key) ==
    IF MapHas(seen, id) THEN Get(MapGet(seen, id).currentConfig, key)
    ELSE Undefined

\* updateValue as created by the render that saw the registrations `seen`
updateValueFrom(seen, id, key, value, skipHistory) ==
    LET oldValue == OldValue(seen, id, key)
    IN  /\ IF ~skipHistory /\ oldValue # value
           THEN /\ pushHistory(id, key, oldValue, value)
                /\ historyState' = HistoryStateOf(history', historyIndex')
           ELSE UNCHANGED <<history, historyIndex, historyState>>
        /\ store' = updateStoredConfig(store, id, key, value)
        /\ registrations' = WithCurrent(registrations, id, key, value)
        /\ calls' = Notified(registrations, id, key, value)
        /\ batch' = Live(batch)
        /\ UNCHANGED <<now, isSaving>>

\* updateValue called from the latest render
updateValue(id, key, value, skipHistory) ==
    updateValueFrom(registrations, id, key, value, skipHistory)

\* the value undo writes back: "entry.oldValue"
UndoValueIsNew(entry) == entry.newValue

UndoValue(entry) == entry.oldValue

undo ==
    LET entry == UndoResult(history, historyIndex)
    IN  /\ undoHistory
        /\ IF entry # <<>>
           THEN /\ store' = updateStoredConfig(store, entry[1].id, entry[1].key,
                                               UndoValue(entry[1]))
                /\ registrations' = WithCurrent(registrations, entry[1].id,
                                                entry[1].key, UndoValue(entry[1]))
                /\ calls' = Notified(registrations, entry[1].id, entry[1].key,
                                     UndoValue(entry[1]))
                /\ historyState' = HistoryStateOf(history', historyIndex')
           ELSE /\ calls' = <<>>
                /\ UNCHANGED <<store, registrations, historyState>>
        /\ batch' = Live(batch)
        /\ UNCHANGED <<now, isSaving>>

redo ==
    LET entry == RedoResult(history, historyIndex)
    IN  /\ redoHistory
        /\ IF entry # <<>>
           THEN /\ store' = updateStoredConfig(store, entry[1].id, entry[1].key,
                                               entry[1].newValue)
                /\ registrations' = WithCurrent(registrations, entry[1].id,
                                                entry[1].key, entry[1].newValue)
                /\ calls' = Notified(registrations, entry[1].id, entry[1].key,
                                     entry[1].newValue)
                /\ historyState' = HistoryStateOf(history', historyIndex')
           ELSE /\ calls' = <<>>
                /\ UNCHANGED <<store, registrations, historyState>>
        /\ batch' = Live(batch)
        /\ UNCHANGED <<now, isSaving>>

CommittedOverOriginal(reg) ==
    [reg EXCEPT !.sourceConfig = reg.currentConfig, !.originalConfig = reg.currentConfig]

\* "Update sourceConfig to match currentConfig"
Committed(reg) == [reg EXCEPT !.sourceConfig = reg.currentConfig]

CommitAll(m) == [i \in 1..Len(m) |-> Committed(m[i])]

CommitSection(m, id) ==
    IF MapHas(m, id) THEN MapSet(m, Committed(MapGet(m, id))) ELSE m

BatchReversed(kind, id, changes) ==
    [status |-> "pending", kind |-> kind, id |-> id,
     changes |-> [n \in 1..Len(changes) |-> changes[Len(changes) + 1 - n]],
     pos |-> 1]

\* a call of saveAll or saveSection: the unsaved changes its closure captured
\* and the position of the change whose onSave it awaits
Batch(kind, id, changes) ==
    [status |-> "pending", kind |-> kind, id |-> id, changes |-> changes,
     pos |-> 1]

Returns(b, status) == <<[b EXCEPT !.status = status]>>

\* saveAll's guard: "if (isSaving || unsavedChanges.length === 0) return"
SaveAllAcceptsWhileSaving(saving, changes) == changes # <<>>

SaveAllAccepts(saving, changes) == ~(saving \/ changes = <<>>)

saveAll ==
    /\ IF SaveAllAccepts(isSaving, unsavedChanges)
       THEN /\ isSaving' = TRUE
            /\ batch' = <<Batch("all", "", unsavedChanges)>>
            /\ calls' = <<OnSave(unsavedChanges[1])>>
       ELSE /\ batch' = Live(batch)
            /\ calls' = <<>>
            /\ UNCHANGED isSaving
    /\ UNCHANGED <<history, historyIndex, now, registrations, store,
                   historyState>>

\* saveSection's guard: "if (!reg || isSaving) return"
SaveSectionAccepts(m, saving, id) == ~(~MapHas(m, id) \/ saving)

SectionChangesAll(changes, id) == changes

SectionChanges(changes, id) == SelectSeq(changes, LAMBDA c : c.id = id)

saveSection(id) ==
    /\ IF ~SaveSectionAccepts(registrations, isSaving, id)
       THEN /\ batch' = Live(batch)
            /\ calls' = <<>>
            /\ UNCHANGED <<isSaving, registrations>>
       ELSE IF SectionChanges(unsavedChanges, id) = <<>>
       THEN \* no onSave is awaited: the call runs to its end at once
            /\ registrations' = CommitSection(registrations, id)
            /\ batch' = Returns(Batch("section", id, <<>>), "resolved")
            /\ calls' = <<>>
            /\ UNCHANGED isSaving
       ELSE /\ isSaving' = TRUE
            /\ batch' = <<Batch("section", id, SectionChanges(unsavedChanges, id))>>
            /\ calls' = <<OnSave(SectionChanges(unsavedChanges, id)[1])>>
            /\ UNCHANGED registrations
    /\ UNCHANGED <<history, historyIndex, now, store, historyState>>

FinallyKeepsSaving(saving) == saving

\* "finally { setIsSaving(false) }"
Finally(saving) == FALSE

\* the registrations after the batch's last onSave resolved
AfterSave(b, m) ==
    IF b.kind = "all" THEN CommitAll(m) ELSE CommitSection(m, b.id)

\* the registrations after one onSave of the batch resolved and more follow
AfterResolve(b, m) == m

\* the registrations after an onSave of the batch rejected
AfterRejectCommits(b, m) == AfterSave(b, m)

AfterReject(b, m) == m

\* the awaited onSave resolves: the call resumes, awaits the next change's
\* onSave or, after the last one, commits and runs its finally block
onSaveResolved ==
    /\ Pending(batch)
    /\ LET b == batch[1]
       IN  IF b.pos < Len(b.changes)
           THEN /\ batch' = <<[b EXCEPT !.pos = @ + 1]>>
                /\ registrations' = AfterResolve(b, registrations)
                /\ calls' = <<OnSave(b.changes[b.pos + 1])>>
                /\ UNCHANGED isSaving
           ELSE /\ registrations' = AfterSave(b, registrations)
                /\ isSaving' = Finally(isSaving)
                /\ batch' = Returns(b, "resolved")
                /\ calls' = <<>>
    /\ UNCHANGED <<history, historyIndex, now, store, historyState>>

\* the call of onSave that resolves: handleSave(key, value) of the entity
SavedBy(b) == <<b.changes[b.pos].id, b.changes[b.pos].key, b.changes[b.pos].newValue>>

CaughtContinues(b) ==
    IF b.pos < Len(b.changes) THEN <<[b EXCEPT !.pos = @ + 1]>>
    ELSE Returns(b, "rejected")

\* the rejection leaves the for loop for the catch block: the call returns
\* without awaiting the onSave of the changes that follow
Caught(b) == Returns(b, "rejected")

\* the awaited onSave rejects: the catch block logs, the finally block runs
onSaveRejected ==
    /\ Pending(batch)
    /\ registrations' = AfterReject(batch[1], registrations)
    /\ isSaving' = Finally(isSaving)
    /\ batch' = Caught(batch[1])
    /\ calls' = <<>>
    /\ UNCHANGED <<history, historyIndex, now, store, historyState>>

\* resetSection's functional update: currentConfig becomes the sourceConfig
ResetKeepsCurrent(m, id) == m

ResetToOriginal(m, id) ==
    IF MapHas(m, id)
    THEN MapSet(m, [MapGet(m, id) EXCEPT !.currentConfig = MapGet(m, id).originalConfig])
    ELSE m

Reset(m, id) ==
    IF MapHas(m, id)
    THEN MapSet(m, [MapGet(m, id) EXCEPT !.currentConfig = MapGet(m, id).sourceConfig])
    ELSE m

ResetCallsChanged(m, id) ==
    IF MapHas(m, id)
    THEN LET reg == MapGet(m, id)
             keys == SelectSeq(KeyOrder,
                        LAMBDA k : k \in DOMAIN reg.sourceConfig
                                     /\ Get(reg.currentConfig, k) # reg.sourceConfig[k])
         IN  [n \in 1..Len(keys) |-> OnUpdate(id, keys[n], reg.sourceConfig[keys[n]])]
    ELSE <<>>

\* "Notify component of reset": onUpdate for every key of the sourceConfig
ResetCalls(m, id) ==
    IF MapHas(m, id)
    THEN LET src == MapGet(m, id).sourceConfig
             keys == SelectSeq(KeyOrder, LAMBDA k : k \in DOMAIN src)
         IN  [n \in 1..Len(keys) |-> OnUpdate(id, keys[n], src[keys[n]])]
    ELSE <<>>

resetSectionClearsLog(id) ==
    /\ IF ~MapHas(registrations, id)
       THEN /\ calls' = <<>>
            /\ UNCHANGED <<store, registrations>>
       ELSE /\ store' = setStoredConfig(store, id, MapGet(registrations, id).sourceConfig)
            /\ registrations' = Reset(registrations, id)
            /\ calls' = ResetCalls(registrations, id)
    /\ batch' = Live(batch)
    /\ history' = <<>>
    /\ historyIndex' = -1
    /\ historyState' = HistoryStateOf(history', historyIndex')
    /\ UNCHANGED <<now, isSaving>>

resetSection(id) ==
    /\ IF ~MapHas(registrations, id)
       THEN /\ calls' = <<>>
            /\ UNCHANGED <<store, registrations>>
       ELSE /\ store' = setStoredConfig(store, id, MapGet(registrations, id).sourceConfig)
            /\ registrations' = Reset(registrations, id)
            /\ calls' = ResetCalls(registrations, id)
    /\ batch' = Live(batch)
    /\ UNCHANGED <<history, historyIndex, now, historyState, isSaving>>

resetAllFirstOnly ==
    /\ IF registrations = <<>>
       THEN /\ calls' = <<>>
            /\ UNCHANGED <<store, registrations>>
       ELSE /\ store' = setStoredConfig(store, registrations[1].id,
                                        registrations[1].sourceConfig)
            /\ registrations' = Reset(registrations, registrations[1].id)
            /\ calls' = ResetCalls(registrations, registrations[1].id)
    /\ batch' = Live(batch)
    /\ UNCHANGED <<history, historyIndex, now, historyState, isSaving>>

resetAll ==
    /\ store' = [x \in DOMAIN store \cup MapIds(registrations) |->
                    IF x \in MapIds(registrations)
                    THEN MapGet(registrations, x).sourceConfig ELSE store[x]]
    /\ registrations' =
          [i \in 1..Len(registrations) |->
              [registrations[i] EXCEPT !.currentConfig = registrations[i].sourceConfig]]
    /\ calls' = Concat([i \in 1..Len(registrations) |->
                           ResetCalls(registrations, registrations[i].id)])
    /\ batch' = Live(batch)
    /\ UNCHANGED <<history, historyIndex, now, historyState, isSaving>>

----------------------------------------------------------------------------
(* The provider.  Every handler runs to completion; a handler called from   *)
(* the UI reads the state of the latest render, the continuation of a       *)
(* suspended save reads what its closure captured.  Components register and *)
(* unregister, the control panel edits the controls it shows (the keys of   *)
(* the current configuration of the registered entities), and the promise   *)
(* of an awaited onSave settles.                                            *)

Handlers(ids, keys, defaults, maxLog, record) ==
    \/ \E id \in ids, d \in defaults : register(id, d) /\ UNCHANGED dvars
    \/ \E id \in ids : unregister(id) /\ UNCHANGED dvars
    \/ \E id \in ids \cap MapIds(registrations) :
          \E key \in keys \cap DOMAIN MapGet(registrations, id).currentConfig,
             value \in Values, skipHistory \in BOOLEAN :
             /\ skipHistory \/ Len(Splice(history, historyIndex)) < maxLog
             /\ updateValue(id, key, value, skipHistory)
             /\ UNCHANGED dvars
    \/ undo /\ UNCHANGED dvars
    \/ redo /\ UNCHANGED dvars
    \/ saveAll /\ UNCHANGED dvars
    \/ \E id \in ids : saveSection(id) /\ UNCHANGED dvars
    \/ \E id \in ids : resetSection(id) /\ UNCHANGED dvars
    \/ resetAll /\ UNCHANGED dvars
    \/ onSaveRejected /\ UNCHANGED dvars
    \/ /\ onSaveResolved
       /\ saved' = IF record THEN saved \cup {SavedBy(batch[1])} ELSE saved
       /\ UNCHANGED <<view, mounted, microtasks, snap, ret, hval, isDev, fetches, refs>>

(* Spec: two entities with one key each *)

SpecKeys == {"a"}

SpecDefaults == {[k \in SpecKeys |-> 1]}

Next == Handlers(Ids, SpecKeys, SpecDefaults, MaxLog, FALSE)

Spec == Init /\ [][Next]_vars

(* KeySpec: one entity with up to two keys, declared as {a: 1} or as *)
(* {a: 1, b: 2}                                                      *)

KeyNext == Handlers({"A"}, Keys, DefaultConfigs, MaxLog, FALSE)

KeySpec == Init /\ [][KeyNext]_vars

(* RoundTripSpec: entities are registered and given values, then edits are *)
(* made through updateValue, one per (entity, key) pair and each changing  *)
(* its value, then as many undo calls, then as many redo calls.            *)

Edited(id, key) ==
    \E n \in 1..Len(history) : history[n].id = id /\ history[n].key = key

TRegister ==
    /\ ret.op \in {"init", "register"}
    /\ \E id \in Ids, d \in DefaultConfigs : register(id, d)
    /\ ret' = Returned("register", <<>>)
    /\ UNCHANGED <<saved, view, mounted, microtasks, snap, hval, isDev, fetches, refs>>

TSeed ==
    /\ ret.op = "register"
    /\ \E id \in MapIds(registrations), key \in Keys, value \in Values :
          updateValue(id, key, value, TRUE)
    /\ UNCHANGED dvars

TEdit ==
    /\ ret.op \in {"register", "updateValue"}
    /\ hval < MaxEdits
    /\ \E id \in MapIds(registrations), key \in Keys, value \in Values :
          /\ ~Edited(id, key)
          /\ value # Get(MapGet(registrations, id).currentConfig, key)
          /\ updateValue(id, key, value, FALSE)
    /\ hval' = hval + 1
    /\ ret' = Returned("updateValue", <<>>)
    /\ snap' = [pre |-> IF ret.op = "register"
                        THEN [registrations |-> registrations, store |-> store]
                        ELSE snap.pre,
                post |-> [registrations |-> registrations', store |-> store']]
    /\ UNCHANGED <<saved, view, mounted, microtasks, isDev, fetches, refs>>

TUndo ==
    /\ ret.op \in {"updateValue", "undo"}
    /\ hval > 0
    /\ undo
    /\ hval' = hval - 1
    /\ ret' = Returned("undo", UndoResult(history, historyIndex))
    /\ UNCHANGED <<saved, view, mounted, microtasks, snap, isDev, fetches, refs>>

TRedo ==
    /\ \/ ret.op = "undo" /\ hval = 0
       \/ ret.op = "redo" /\ hval < Len(history)
    /\ redo
    /\ hval' = hval + 1
    /\ ret' = Returned("redo", RedoResult(history, historyIndex))
    /\ UNCHANGED <<saved, view, mounted, microtasks, snap, isDev, fetches, refs>>

RoundTripNext == TRegister \/ TSeed \/ TEdit \/ TUndo \/ TRedo

RoundTripSpec == Init /\ [][RoundTripNext]_vars

(* StaleSpec: the handlers are those of the last render.  A handler's    *)
(* state updates are applied at once (the functional updates run on the  *)
(* latest state), but the handlers are created anew, with the new        *)
(* registrations in their closures, only when React renders again: calls *)
(* made before that run the closures of the previous render.             *)

SRegister ==
    /\ \E id \in Ids : register(id, [k \in SpecKeys |-> 1])
    /\ UNCHANGED dvars

SUpdate ==
    /\ \E id \in MapIds(view), key \in SpecKeys, value \in Values, skipHistory \in BOOLEAN :
          /\ skipHistory \/ Len(Splice(history, historyIndex)) < MaxStaleLog
          /\ updateValueFrom(view, id, key, value, skipHistory)
    /\ UNCHANGED dvars

SUndo == undo /\ UNCHANGED dvars

SRedo == redo /\ UNCHANGED dvars

SRender ==
    /\ view # registrations
    /\ view' = registrations
    /\ UNCHANGED <<history, historyIndex, now, registrations, store, historyState,
                   isSaving, batch, calls, saved, mounted, microtasks, snap, ret,
                   hval, isDev, fetches, refs>>

StaleNext == SRegister \/ SUpdate \/ SUndo \/ SRedo \/ SRender

StaleSpec == Init /\ [][StaleNext]_vars

(* SavedSpec: Spec with the record of the onSave calls that resolved *)

SavedNext == Handlers(Ids, SpecKeys, SpecDefaults, MaxSavedLog, TRUE)

SavedSpec == Init /\ [][SavedNext]_vars

(* LiveSpec: Spec where every onSave that is awaited eventually resolves or *)
(* rejects.                                                                *)

LiveNext == Handlers(Ids, SpecKeys, SpecDefaults, MaxLiveLog, FALSE)

\* the onSave that a save call awaits settles
Settles == (onSaveResolved \/ onSaveRejected) /\ UNCHANGED dvars

LiveSpec == Init /\ [][LiveNext]_vars /\ WF_vars(Settles)

(* GoneSpec: entities come and go while the log keeps their entries; ret *)
(* records the last call and the entry undo or redo obtained.            *)

GRegister ==
    /\ \E id \in Ids : register(id, [k \in SpecKeys |-> 1])
    /\ ret' = Returned("register", <<>>)
    /\ UNCHANGED <<saved, view, mounted, microtasks, snap, hval, isDev, fetches, refs>>

GUnregister ==
    /\ \E id \in MapIds(registrations) : unregister(id)
    /\ ret' = Returned("unregister", <<>>)
    /\ UNCHANGED <<saved, view, mounted, microtasks, snap, hval, isDev, fetches, refs>>

GUpdate ==
    /\ \E id \in MapIds(registrations), key \in SpecKeys, value \in Values :
          /\ Len(Splice(history, historyIndex)) < MaxGoneLog
          /\ updateValue(id, key, value, FALSE)
    /\ ret' = Returned("updateValue", <<>>)
    /\ UNCHANGED <<saved, view, mounted, microtasks, snap, hval, isDev, fetches, refs>>

GUndo ==
    /\ undo
    /\ ret' = Returned("undo", UndoResult(history, historyIndex))
    /\ UNCHANGED <<saved, view, mounted, microtasks, snap, hval, isDev, fetches, refs>>

GRedo ==
    /\ redo
    /\ ret' = Returned("redo", RedoResult(history, historyIndex))
    /\ UNCHANGED <<saved, view, mounted, microtasks, snap, hval, isDev, fetches, refs>>

GoneNext == GRegister \/ GUnregister \/ GUpdate \/ GUndo \/ GRedo

GoneSpec == Init /\ [][GoneNext]_vars

(* MountSpec: components using useTangent mount and unmount.  The effect   *)
(* queues its register call as a microtask, the cleanup calls unregister   *)
(* at once, and a queued microtask is never cancelled.                     *)

\* the effect of useTangent runs: "queueMicrotask(() => { register({...}) })"
Mount ==
    /\ Len(microtasks) < MaxQueued
    /\ \E id \in Ids \ mounted, d \in DefaultConfigs :
          /\ mounted' = mounted \cup {id}
          /\ microtasks' = Append(microtasks, [id |-> id, defaultValues |-> d])
    /\ UNCHANGED <<history, historyIndex, now, registrations, store,
                   historyState, isSaving, batch, calls>>
    /\ UNCHANGED <<saved, view, snap, ret, hval, isDev, fetches, refs>>

\* the cleanup of the effect runs: "return () => unregister(id)"
Unmount ==
    /\ \E id \in mounted :
          /\ unregister(id)
          /\ mounted' = mounted \ {id}
    /\ UNCHANGED <<saved, view, microtasks, snap, ret, hval, isDev, fetches, refs>>

\* the oldest queued microtask runs its register call
RunMicrotask ==
    /\ microtasks # <<>>
    /\ register(Head(microtasks).id, Head(microtasks).defaultValues)
    /\ microtasks' = Tail(microtasks)
    /\ UNCHANGED <<saved, view, mounted, snap, ret, hval, isDev, fetches, refs>>

\* an edit of a registered entity from the control panel
MEdit ==
    /\ \E id \in MapIds(registrations) :
          \E key \in DOMAIN MapGet(registrations, id).currentConfig, value \in Values :
             updateValue(id, key, value, TRUE)
    /\ UNCHANGED dvars

MountNext == Mount \/ Unmount \/ RunMicrotask \/ MEdit

MountSpec == Init /\ [][MountNext]_vars

(* UseSpec: components obtain the coordinator with useTangentContext, under *)
(* a provider or not, in a development or a production build, and call the *)
(* functions of the coordinator they obtained.                             *)

\* what useContext(TangentContext) returns: null, or the provider's value
Contexts == {<<>>, <<"contextValue">>}

Obtained(value) == [kind |-> "context", value |-> value]

Thrown(message) == [kind |-> "error", value |-> message]

useTangentContextDegrades(dev, context) ==
    IF ~dev \/ context = <<>> THEN Obtained("prodContextValue")
    ELSE Obtained(context[1])

useTangentContext(dev, context) ==
    IF ~dev THEN Obtained("prodContextValue")
    ELSE IF context = <<>>
    THEN Thrown("useTangentContext must be used within a TangentProvider")
    ELSE Obtained(context[1])

UseContext(context) ==
    /\ ret' = Returned("useTangentContext", <<useTangentContext(isDev, context)>>)
    /\ UNCHANGED <<history, historyIndex, now, registrations, store,
                   historyState, isSaving, batch, calls>>
    /\ UNCHANGED <<saved, view, mounted, microtasks, snap, hval, isDev, fetches, refs>>

UContext == \E context \in Contexts : UseContext(context)

\* a production build: every function of prodContextValue is noopFn
UNoop ==
    /\ ~isDev
    /\ \E op \in {"register", "unregister", "updateValue", "undo", "redo"} :
          ret' = Returned(op, <<>>)
    /\ UNCHANGED <<history, historyIndex, now, registrations, store,
                   historyState, isSaving, batch, calls>>
    /\ UNCHANGED <<saved, view, mounted, microtasks, snap, hval, isDev, fetches, refs>>

UseInit == Boot /\ isDev \in BOOLEAN

UseNext ==
    \/ UContext
    \/ UNoop
    \/ isDev /\ GRegister
    \/ isDev /\ GUnregister
    \/ isDev /\ GUpdate
    \/ isDev /\ GUndo
    \/ isDev /\ GRedo

UseSpec == UseInit /\ [][UseNext]_vars

(* HookSpec: components calling useTangent(id, defaultValues, {filePath}) *)
(* in a development build.  refs maps the identifier a component is       *)
(* rendered with, under which its effect registers it, to the refs its    *)
(* first render created; a later render with another identifier keeps     *)
(* them.  handleSave suspends at its fetch until the response arrives.    *)

\* options.filePath: absent, or the path of the source file
FilePaths == {<<>>, <<"Hero.tsx">>}

\* what the fetch of a request ends with
Outcomes == {"ok", "notOk", "networkError"}

\* "const filePathRef = useRef(options.filePath); const idRef = useRef(id)"
useRefs(id, filePath) == [idRef |-> id, filePathRef |-> filePath]

\* the first render of a component
HMount ==
    /\ \E id \in Ids \ DOMAIN refs, filePath \in FilePaths :
          refs' = [x \in DOMAIN refs \cup {id} |->
                      IF x = id THEN useRefs(id, filePath) ELSE refs[x]]
    /\ ret' = Returned("mount", <<>>)
    /\ UNCHANGED <<history, historyIndex, now, registrations, store,
                   historyState, isSaving, batch, calls>>
    /\ UNCHANGED <<saved, view, mounted, microtasks, snap, hval, isDev, fetches>>

\* a later render with another identifier: useRef returns the refs it has
HRender ==
    /\ \E id \in DOMAIN refs, other \in Ids \ DOMAIN refs :
          refs' = [x \in (DOMAIN refs \ {id}) \cup {other} |->
                      IF x = other THEN refs[id] ELSE refs[x]]
    /\ ret' = Returned("render", <<>>)
    /\ UNCHANGED <<history, historyIndex, now, registrations, store,
                   historyState, isSaving, batch, calls>>
    /\ UNCHANGED <<saved, view, mounted, microtasks, snap, hval, isDev, fetches>>

HUnmount ==
    /\ \E id \in DOMAIN refs : refs' = [x \in DOMAIN refs \ {id} |-> refs[x]]
    /\ ret' = Returned("unmount", <<>>)
    /\ UNCHANGED <<history, historyIndex, now, registrations, store,
                   historyState, isSaving, batch, calls>>
    /\ UNCHANGED <<saved, view, mounted, microtasks, snap, hval, isDev, fetches>>

\* "body: JSON.stringify({ filePath, id: idRef.current, key, value })"
Request(id, r, key, value) ==
    [filePath |-> r.filePathRef[1], id |-> r.idRef, key |-> key, value |-> value]

Settled(kind, request) == [kind |-> kind, request |-> request]

\* the onSave of the entity registered as id is called: handleSave runs to
\* its return without a filePath and to its await of fetch with one
handleSave(id, key, value) ==
    /\ id \in DOMAIN refs
    /\ IF refs[id].filePathRef = <<>>
       THEN /\ ret' = Returned("handleSave", <<Settled("resolved", <<>>)>>)
            /\ UNCHANGED fetches
       ELSE /\ Len(fetches) < MaxFetches
            /\ fetches' = Append(fetches, Request(id, refs[id], key, value))
            /\ ret' = Returned("handleSave", <<Settled("pending", <<fetches'[Len(fetches')]>>)>>)
    /\ UNCHANGED <<history, historyIndex, now, registrations, store,
                   historyState, isSaving, batch, calls>>
    /\ UNCHANGED <<saved, view, mounted, microtasks, snap, hval, isDev, refs>>

HSave == \E id \in DOMAIN refs, key \in Keys, value \in Values : handleSave(id, key, value)

\* "if (!response.ok) { ... throw new Error(...) }", "catch (error) { ...
\* throw error }": the promise of handleSave rejects unless the response is ok
Responded(outcome) == IF outcome = "ok" THEN "resolved" ELSE "rejected"

\* the fetch of the n-th awaited request ends and handleSave resumes
Respond(n, outcome) ==
    /\ n \in 1..Len(fetches)
    /\ fetches' = [i \in 1..(Len(fetches) - 1) |->
                      IF i < n THEN fetches[i] ELSE fetches[i + 1]]
    /\ ret' = Returned("handleSave", <<Settled(Responded(outcome), <<fetches[n]>>)>>)
    /\ UNCHANGED <<history, historyIndex, now, registrations, store,
                   historyState, isSaving, batch, calls>>
    /\ UNCHANGED <<saved, view, mounted, microtasks, snap, hval, isDev, refs>>

HRespond == \E n \in 1..Len(fetches), outcome \in Outcomes : Respond(n, outcome)

HookNext == HMount \/ HRender \/ HUnmount \/ HSave \/ HRespond

HookSpec == Init /\ [][HookNext]_vars

(* ApiSpec: the functions of the context value called by any consumer:    *)
(* updateValue(id, key, value) takes any identifier and any key, whether  *)
(* or not the entity is registered and declares the key.                  *)

ARegister ==
    /\ \E id \in Ids : register(id, [k \in SpecKeys |-> 1])
    /\ UNCHANGED dvars

AUnregister ==
    /\ \E id \in MapIds(registrations) : unregister(id)
    /\ UNCHANGED dvars

AUpdate ==
    /\ \E id \in Ids, key \in Keys, value \in Values, skipHistory \in BOOLEAN :
          /\ skipHistory \/ Len(Splice(history, historyIndex)) < MaxApiLog
          /\ updateValue(id, key, value, skipHistory)
    /\ UNCHANGED dvars

AUndo == undo /\ UNCHANGED dvars

ARedo == redo /\ UNCHANGED dvars

ApiNext == ARegister \/ AUnregister \/ AUpdate \/ AUndo \/ ARedo

ApiSpec == Init /\ [][ApiNext]_vars

(* StoreSpec: the Value Store called directly *)

\* the configurations over Keys
Configs == UNION {[ks -> Values] : ks \in SUBSET Keys}

VSet(id, cfg) ==
    /\ store' = setStoredConfig(store, id, cfg)
    /\ ret' = Returned("set", <<>>)
    /\ UNCHANGED <<history, historyIndex, now, hval, registrations, historyState,
                   isSaving, batch, calls, saved, view, mounted, microtasks,
                   snap, isDev, fetches, refs>>

VGet(id) ==
    /\ ret' = Returned("get", getStoredConfig(store, id))
    /\ UNCHANGED <<history, historyIndex, now, hval, registrations, historyState,
                   isSaving, batch, calls, saved, view, mounted, microtasks,
                   snap, isDev, fetches, refs, store>>

VUpdate(id, key, value) ==
    /\ store' = updateStoredConfig(store, id, key, value)
    /\ ret' = Returned("update", <<>>)
    /\ UNCHANGED <<history, historyIndex, now, hval, registrations, historyState,
                   isSaving, batch, calls, saved, view, mounted, microtasks,
                   snap, isDev, fetches, refs>>

StoreNext ==
    \/ \E id \in Ids, cfg \in Configs : VSet(id, cfg)
    \/ \E id \in Ids : VGet(id)
    \/ \E id \in Ids, key \in Keys, value \in Values : VUpdate(id, key, value)

StoreSpec == Init /\ [][StoreNext]_vars

----------------------------------------------------------------------------
(* Claims about the history log *)

\* C6: a pushHistory made after undo() calls discards every entry strictly
\* after the cursor before it appends: the log becomes the entries up to
\* the cursor followed by the new entry, the cursor designates the new
\* entry, redo() has nothing to return, and none of the formerly redoable
\* entries is in the log any more; whatever undo() or redo() returns is an
\* entry of the log, so a discarded entry is never returned again.
C6_RedoBranchDiscarded ==
    /\ [][(ret'.op = "pushHistory" /\ now' # now) =>
          /\ Len(history') = historyIndex + 2
          /\ SubSeq(history', 1, historyIndex + 1)
                 = SubSeq(history, 1, historyIndex + 1)
          /\ history'[Len(history')].timestamp = now
          /\ historyIndex' = Len(history') - 1
          /\ RedoResult(history', historyIndex') = <<>>
          /\ \A k \in (historyIndex + 2)..Len(history) :
                \A j \in 1..Len(history') : history'[j] # history[k]
      ]_vars
    /\ [](ret.val # <<>> => \E j \in 1..Len(history) : history[j] = ret.val[1])

\* edits A, B, C (instants 0, 1, 2), two undos, edit D (instant 3), then
\* undo() returned D and now A: the log is <<A, D>>, B and C are gone
C6_Witness ==
    /\ Len(history) = 2
    /\ history[1].timestamp = 0
    /\ history[2].timestamp = 3
    /\ historyIndex = -1
    /\ ret = Returned("undo", <<history[1]>>)

\* C8: when n edits are recorded into an empty log, the log holds the
\* min(n, MAX_HISTORY) most recent of them in insertion order, so with
\* n = MAX_HISTORY + 1 exactly MAX_HISTORY are retained and the first
\* recorded entry is the one evicted; each undo() that follows returns the
\* entry just below the previous one, and never the evicted first entry.
Recorded == IF history = <<>> THEN 0 ELSE history[Len(history)].newValue

C8_EvictsOldest ==
    /\ Len(history) = IF Recorded > MAX_HISTORY THEN MAX_HISTORY ELSE Recorded
    /\ \A k \in 1..Len(history) :
          /\ history[k].oldValue = Recorded - Len(history) + k - 1
          /\ history[k].newValue = Recorded - Len(history) + k
    /\ (ret.op = "undo" /\ ret.val # <<>>) =>
          /\ ret.val[1] = history[historyIndex + 2]
          /\ Recorded > MAX_HISTORY => ret.val[1].oldValue # 0
    /\ (ret.op = "undo" /\ ret.val = <<>>) => historyIndex = -1

\* MAX_HISTORY + 1 edits were recorded and MAX_HISTORY undos made: the last
\* undo returned the second recorded edit, the oldest one retained
C8_Witness ==
    /\ Recorded = MAX_HISTORY + 1
    /\ historyIndex = -1
    /\ ret.op = "undo"
    /\ ret.val # <<>>
    /\ ret.val[1].oldValue = 1

\* C9: the log never holds more than MAX_HISTORY entries and the cursor
\* stays within -1 .. length - 1.
C9_LogAndCursorBounded ==
    /\ Len(history) <= MAX_HISTORY
    /\ -1 <= historyIndex
    /\ historyIndex <= Len(history) - 1

\* a full log whose oldest entries have been evicted, cursor at the tail
C9_Witness ==
    /\ Len(history) = MAX_HISTORY
    /\ history[1].oldValue > 0
    /\ historyIndex = MAX_HISTORY - 1
    /\ ret.op = "pushHistory"

\* C10: undo() with nothing to undo and redo() with nothing to redo return
\* null and leave the entries and the cursor as they were.
C10_PastTheEnds ==
    [][/\ (ret'.op = "undo" /\ ~canUndo) =>
             (ret'.val = <<>> /\ history' = history /\ historyIndex' = historyIndex)
       /\ (ret'.op = "redo" /\ ~canRedo) =>
             (ret'.val = <<>> /\ history' = history /\ historyIndex' = historyIndex)
      ]_vars

\* undo() was called on a non-empty log whose cursor was already at -1
C10_Witness ==
    /\ ret = Returned("undo", <<>>)
    /\ Len(history) >= 2
    /\ historyIndex = -1

----------------------------------------------------------------------------
(* Claims about saving *)

Reports(changes, c) == \E n \in 1..Len(changes) : changes[n] = c

SourceValue(m, id, key) == Get(MapGet(m, id).sourceConfig, key)

\* C1: once a saveAll call has returned after every onSave resolved,
\* unsavedChanges is empty and the source value of every pair the call saved
\* is the current value the pair had when saveAll was invoked (the newValue
\* of the change the call captured), for every entity still registered.
C1_SaveAllCommitsInvokedValues ==
    (batch # <<>> /\ batch[1].kind = "all" /\ batch[1].status = "resolved") =>
        /\ unsavedChanges = <<>>
        /\ \A n \in 1..Len(batch[1].changes) :
              LET c == batch[1].changes[n]
              IN  MapHas(registrations, c.id) =>
                     SourceValue(registrations, c.id, c.key) = c.newValue

\* C2: a step of a save batch other than the resolution of its last onSave
\* (an onSave that rejects, or one that resolves with more to follow) changes
\* no record of the registry, so no source configuration and nothing that
\* unsavedChanges reports; and when a batch has ended by a rejection, every
\* change of the batch whose pair still has the values the batch captured is
\* reported by unsavedChanges, those already resolved included.
C2_NoPartialCommit ==
    [][(Pending(batch) /\ (onSaveRejected \/ (onSaveResolved /\ Pending(batch')))) =>
          /\ registrations' = registrations
          /\ UnsavedChangesOf(registrations') = unsavedChanges
          /\ batch'[1].status = "rejected" =>
                \A n \in 1..Len(batch[1].changes) :
                   LET c == batch[1].changes[n]
                   IN  (/\ MapHas(registrations', c.id)
                        /\ Get(MapGet(registrations', c.id).currentConfig, c.key) = c.newValue
                        /\ SourceValue(registrations', c.id, c.key) = c.oldValue)
                       => Reports(UnsavedChangesOf(registrations'), c)
      ]_vars

\* saveAll captured the edits of two entities, its first onSave resolved,
\* its second rejected: both edits are still reported
C2_Witness ==
    /\ batch # <<>> /\ batch[1].kind = "all" /\ batch[1].status = "rejected"
    /\ Len(batch[1].changes) = 2 /\ batch[1].pos = 2
    /\ batch[1].changes[1].id # batch[1].changes[2].id
    /\ unsavedChanges = batch[1].changes
    /\ ~isSaving

C4_SourceIsDefaultOrSaved ==
    \A i \in 1..Len(registrations) :
       \A key \in DOMAIN registrations[i].sourceConfig :
          \/ registrations[i].sourceConfig[key]
                = Get(registrations[i].originalConfig, key)
          \/ <<registrations[i].id, key, registrations[i].sourceConfig[key]>> \in saved

\* C5: unsavedChanges holds a record (id, key, oldValue = source value,
\* newValue = current value) for exactly the pairs of a registered entity and
\* a key whose current value differs from its source value.
C5_ChangesAreExactlyTheDifferences ==
    /\ \A i \in 1..Len(registrations) : \A key \in Keys :
          LET reg == registrations[i]
          IN  Get(reg.currentConfig, key) # Get(reg.sourceConfig, key) =>
                 Reports(unsavedChanges,
                         [id |-> reg.id, key |-> key,
                          oldValue |-> Get(reg.sourceConfig, key),
                          newValue |-> Get(reg.currentConfig, key)])
    /\ \A n \in 1..Len(unsavedChanges) :
          LET c == unsavedChanges[n]
          IN  /\ MapHas(registrations, c.id)
              /\ c.oldValue = SourceValue(registrations, c.id, c.key)
              /\ c.newValue = Get(MapGet(registrations, c.id).currentConfig, c.key)
              /\ c.oldValue # c.newValue
              /\ \A j \in 1..Len(unsavedChanges) :
                    (unsavedChanges[j].id = c.id /\ unsavedChanges[j].key = c.key)
                       => j = n

----------------------------------------------------------------------------
(* Claims about the round trip of edits *)

\* the values of every key in configuration c and in configuration d
SameValues(c, d) == \A key \in Keys : Get(c, key) = Get(d, key)

SameCurrent(m, n) ==
    /\ Len(m) = Len(n)
    /\ \A i \in 1..Len(m) :
          /\ m[i].id = n[i].id
          /\ SameValues(m[i].currentConfig, n[i].currentConfig)

SameStore(s, t) ==
    /\ DOMAIN s = DOMAIN t
    /\ \A id \in DOMAIN s : SameValues(s[id], t[id])

\* C7: after N edits of distinct (entity, key) pairs of registered entities
\* made from an empty history, canUndo is true and canRedo is false; after
\* N undo calls every current configuration and the store have their
\* pre-edit values again; after N further redo calls the current
\* configurations are exactly those that followed the edits.
C7_UndoRedoRoundTrip ==
    /\ ret.op = "updateValue" =>
          /\ canUndo /\ ~canRedo
          /\ historyState = [canUndo |-> TRUE, canRedo |-> FALSE]
          /\ Len(history) = hval
    /\ (ret.op = "undo" /\ hval = 0) =>
          /\ SameCurrent(registrations, snap.pre.registrations)
          /\ SameStore(store, snap.pre.store)
    /\ (ret.op = "redo" /\ hval = Len(history)) =>
          /\ registrations = snap.post.registrations
          /\ SameStore(store, snap.post.store)

\* three edits of three pairs over two entities were made, undone and redone
C7_Witness ==
    /\ ret.op = "redo" /\ ret.val # <<>>
    /\ hval = 3 /\ Len(history) = 3
    /\ history[1].id # history[3].id
    /\ registrations # snap.pre.registrations

----------------------------------------------------------------------------
(* Claims about the scope of the handlers *)

\* the records of the entities other than id, in Map order
Others(m, id) == SelectSeq(m, LAMBDA r : r.id # id)

OthersChanges(changes, id) == SelectSeq(changes, LAMBDA c : c.id # id)

\* what a step of a saveSection(id) call may do: every onSave it invokes is
\* for one of the given changes of id, the records of the other entities and
\* their reported changes stay as they are, and the record of id is left
\* alone or gets its current configuration as its source configuration
SectionScoped(id, changes) ==
    /\ \A n \in 1..Len(calls') :
          /\ calls'[n].fn = "onSave" /\ calls'[n].id = id
          /\ \E k \in 1..Len(changes) :
                changes[k].id = id /\ OnSave(changes[k]) = calls'[n]
    /\ Others(registrations', id) = Others(registrations, id)
    /\ OthersChanges(UnsavedChangesOf(registrations'), id)
          = OthersChanges(unsavedChanges, id)
    /\ MapHas(registrations', id) = MapHas(registrations, id)
    /\ MapHas(registrations, id) =>
          \/ MapGet(registrations', id) = MapGet(registrations, id)
          \/ MapGet(registrations', id) = Committed(MapGet(registrations, id))

\* C11: saveSection(id) invokes onSave only for unsaved changes of id and on
\* success gives only id's record its current configuration as source; the
\* current and source configurations of every other entity and the changes
\* reported for them are unchanged, at the call and at every resumption.
C11_SaveSectionScoped ==
    [][/\ \A id \in Ids : saveSection(id) => SectionScoped(id, unsavedChanges)
       /\ (onSaveResolved /\ batch[1].kind = "section") =>
             /\ SectionScoped(batch[1].id, batch[1].changes)
             /\ (batch'[1].status = "resolved" /\ MapHas(registrations, batch[1].id)) =>
                   /\ \A key \in Keys :
                         SourceValue(registrations', batch[1].id, key)
                            = Get(MapGet(registrations, batch[1].id).currentConfig, key)
                   /\ OthersChanges(UnsavedChangesOf(registrations'), batch[1].id)
                         = UnsavedChangesOf(registrations')
      ]_vars

\* saveSection("A") has returned after A's onSave resolved while B is dirty:
\* A's change is committed and B's change is still reported
C11_Witness ==
    /\ batch # <<>> /\ batch[1].kind = "section" /\ batch[1].status = "resolved"
    /\ batch[1].id = "A" /\ Len(batch[1].changes) = 1
    /\ MapHas(registrations, "A") /\ MapHas(registrations, "B")
    /\ SourceValue(registrations, "A", "a") = batch[1].changes[1].newValue
    /\ Len(unsavedChanges) = 1 /\ unsavedChanges[1].id = "B"

StoreOthers(s, id) == [x \in DOMAIN s \ {id} |-> s[x]]

\* C12: resetSection(id) on a registered entity leaves id's current
\* configuration and id's Value Store entry equal to id's source
\* configuration, which it does not change, and no change of id reported;
\* the records, the store entries and the reported changes of the other
\* entities, and the history log, are unchanged.
C12_ResetSection ==
    [][\A id \in Ids :
          (/\ MapHas(registrations, id)
           /\ UNCHANGED <<now, historyState, isSaving>>
           /\ resetSection(id)) =>
             /\ MapHas(registrations', id)
             /\ MapGet(registrations', id).sourceConfig
                   = MapGet(registrations, id).sourceConfig
             /\ MapGet(registrations', id).currentConfig
                   = MapGet(registrations', id).sourceConfig
             /\ getStoredConfig(store', id)
                   = <<MapGet(registrations', id).sourceConfig>>
             /\ OthersChanges(UnsavedChangesOf(registrations'), id)
                   = UnsavedChangesOf(registrations')
             /\ Others(registrations', id) = Others(registrations, id)
             /\ StoreOthers(store', id) = StoreOthers(store, id)
             /\ OthersChanges(UnsavedChangesOf(registrations'), id)
                   = OthersChanges(unsavedChanges, id)
             /\ UNCHANGED <<history, historyIndex>>
      ]_vars

\* A and B were edited and A was reset: A's component was notified of its
\* source value, A is clean in the registry and in the store, its edit is
\* still in the log, and B's edit is still reported
C12_Witness ==
    /\ calls = <<OnUpdate("A", "a", 1)>>
    /\ MapHas(registrations, "A") /\ MapHas(registrations, "B")
    /\ MapGet(registrations, "A").currentConfig = MapGet(registrations, "A").sourceConfig
    /\ getStoredConfig(store, "A") = <<MapGet(registrations, "A").sourceConfig>>
    /\ history # <<>> /\ history[1].id = "A" /\ history[1].newValue = 2
    /\ historyIndex = 0
    /\ Len(unsavedChanges) = 1 /\ unsavedChanges[1].id = "B"

\* C13: register(id, defaults) leaves exactly one record for id, whose
\* source (and original) configuration is the defaults passed and whose
\* current configuration is the Value Store entry of id if there was one,
\* the store being left as it was, and otherwise the defaults, with which
\* the store entry is seeded; the records and store entries of the other
\* entities are unchanged.
C13_Register ==
    [][\A id \in Ids : \A d \in DefaultConfigs :
          register(id, d) =>
             /\ Cardinality({i \in 1..Len(registrations') : registrations'[i].id = id}) = 1
             /\ MapGet(registrations', id).sourceConfig = d
             /\ MapGet(registrations', id).originalConfig = d
             /\ IF id \in DOMAIN store
                THEN /\ MapGet(registrations', id).currentConfig = store[id]
                     /\ store' = store
                ELSE /\ MapGet(registrations', id).currentConfig = d
                     /\ getStoredConfig(store', id) = <<d>>
             /\ Others(registrations', id) = Others(registrations, id)
             /\ StoreOthers(store', id) = StoreOthers(store, id)
      ]_vars

\* A was registered with {a: 1}, edited, and registered again with
\* {a: 1, b: 2} while B is registered: the new record replaced the old one,
\* its source is the new defaults and its current configuration the stored one
C13_Witness ==
    /\ ret.op = "register"
    /\ MapHas(registrations, "A") /\ MapHas(registrations, "B")
    /\ MapGet(registrations, "A").sourceConfig = [k \in Keys |-> IF k = "a" THEN 1 ELSE 2]
    /\ MapGet(registrations, "A").currentConfig = [k \in {"a"} |-> 2]
    /\ getStoredConfig(store, "A") = <<[k \in {"a"} |-> 2]>>
    /\ registrations[1].id = "A"

\* C14: unregister(id) removes the record of id and nothing else, and leaves
\* the Value Store as it is; the store entry it leaves is the current
\* configuration id had, so register(id, defaults) on the store as it was
\* left yields that current configuration again, whatever the defaults.
C14_UnregisterKeepsStore ==
    [][\A id \in Ids :
          unregister(id) =>
             /\ ~MapHas(registrations', id)
             /\ Others(registrations', id) = Others(registrations, id)
             /\ registrations' = Others(registrations, id)
             /\ store' = store
             /\ MapHas(registrations, id) =>
                   \A d \in DefaultConfigs :
                      Registered(registrations', getStoredConfig(store', id), id, d).currentConfig
                         = MapGet(registrations, id).currentConfig
      ]_vars

\* A was edited and then unregistered while B stays registered: A has no
\* record, its edited configuration is still in the store
C14_Witness ==
    /\ calls = <<>>
    /\ ~MapHas(registrations, "A") /\ MapHas(registrations, "B")
    /\ getStoredConfig(store, "A") = <<[k \in {"a"} |-> 2]>>
    /\ history # <<>> /\ history[1].id = "A" /\ historyIndex = 0

----------------------------------------------------------------------------
(* Claims about updateValue, undo and redo *)

\* C15: updateValue(id, key, value) with skipHistory false appends exactly
\* one entry to the log iff value differs from the value the current
\* configuration holds for (id, key) immediately before the call, with that
\* value as oldValue and value as newValue; with an equal value or
\* skipHistory true the log and the cursor are unchanged.
C15_RecordsAgainstCurrentValue ==
    [][\A id \in Ids, key \in SpecKeys, value \in Values, skipHistory \in BOOLEAN :
          updateValueFrom(view, id, key, value, skipHistory) =>
             IF ~skipHistory /\ value # OldValue(registrations, id, key)
             THEN /\ history' = Append(SubSeq(history, 1, historyIndex + 1),
                                       [id |-> id, key |-> key,
                                        oldValue |-> OldValue(registrations, id, key),
                                        newValue |-> value, timestamp |-> now])
                  /\ historyIndex' = Len(history') - 1
             ELSE UNCHANGED <<history, historyIndex>>
      ]_vars

\* C16: updateValue(id, key, value) on a registered entity, whether or not
\* the value changes or is recorded, leaves value at key in id's current
\* configuration and in id's Value Store entry and every other key of both
\* as it was, leaves id's source and original configurations and every
\* other entity's record and store entry unchanged, and invokes
\* onUpdate(key, value) of id exactly once and nothing else.
C16_UpdateValueFrame ==
    [][\A id \in Ids, key \in Keys, value \in Values, skipHistory \in BOOLEAN :
          (updateValue(id, key, value, skipHistory) /\ MapHas(registrations, id)) =>
             /\ MapHas(registrations', id)
             /\ MapGet(registrations', id).currentConfig
                   = Put(MapGet(registrations, id).currentConfig, key, value)
             /\ MapGet(registrations', id).sourceConfig
                   = MapGet(registrations, id).sourceConfig
             /\ MapGet(registrations', id).originalConfig
                   = MapGet(registrations, id).originalConfig
             /\ getStoredConfig(store', id) = <<Put(store[id], key, value)>>
             /\ Others(registrations', id) = Others(registrations, id)
             /\ StoreOthers(store', id) = StoreOthers(store, id)
             /\ calls' = <<OnUpdate(id, key, value)>>
      ]_vars

\* with A declared {a: 1, b: 2} and B registered, key b of A was just set
\* to 1: A's component was notified once and key a of A is as it was
C16_Witness ==
    /\ ret.op = "updateValue" /\ Len(history) = 1
    /\ history[1] = [id |-> "A", key |-> "b", oldValue |-> 2, newValue |-> 1,
                     timestamp |-> 0]
    /\ calls = <<OnUpdate("A", "b", 1)>>
    /\ MapHas(registrations, "A") /\ MapHas(registrations, "B")
    /\ MapGet(registrations, "A").currentConfig = [k \in Keys |-> 1]
    /\ MapGet(registrations, "A").sourceConfig = [k \in Keys |-> IF k = "a" THEN 1 ELSE 2]
    /\ getStoredConfig(store, "A") = <<[k \in Keys |-> 1]>>

\* what undo or redo does with the entry it obtained and the value it writes
\* back: the store entry of entry.id holds the value at entry.key, a
\* registered entry.id holds it in its current configuration and is
\* notified once, and the log keeps its entries while the cursor moves by
\* step
Restores(entry, value, step) ==
    /\ Get(store'[entry.id], entry.key) = value
    /\ MapHas(registrations, entry.id) =>
          /\ MapHas(registrations', entry.id)
          /\ Get(MapGet(registrations', entry.id).currentConfig, entry.key) = value
          /\ calls' = <<OnUpdate(entry.id, entry.key, value)>>
    /\ history' = history
    /\ historyIndex' = historyIndex + step

\* C17: an undo() that obtains an entry leaves entry.oldValue at entry.key in
\* the Value Store entry and, the entity being registered, in the current
\* configuration of entry.id, invokes that entity's onUpdate(key, oldValue)
\* once and appends nothing to the log, whose cursor moves back by one;
\* redo() does the same with entry.newValue, the cursor moving forward.
C17_UndoRedoRestore ==
    [][/\ (undo /\ UndoResult(history, historyIndex) # <<>>) =>
             Restores(UndoResult(history, historyIndex)[1],
                      UndoResult(history, historyIndex)[1].oldValue, -1)
       /\ (redo /\ RedoResult(history, historyIndex) # <<>>) =>
             Restores(RedoResult(history, historyIndex)[1],
                      RedoResult(history, historyIndex)[1].newValue, 1)
      ]_vars

\* the last of three edits was undone: its entity was notified of the old
\* value, which its current configuration and store entry now hold, and the
\* log still has its three entries
C17_Witness ==
    /\ ret.op = "undo" /\ ret.val # <<>>
    /\ Len(history) = 3 /\ historyIndex = 1
    /\ ret.val[1] = history[3]
    /\ calls = <<OnUpdate(ret.val[1].id, ret.val[1].key, ret.val[1].oldValue)>>
    /\ Get(MapGet(registrations, ret.val[1].id).currentConfig, ret.val[1].key)
          = ret.val[1].oldValue
    /\ Get(store[ret.val[1].id], ret.val[1].key) = ret.val[1].oldValue
    /\ ret.val[1].oldValue # ret.val[1].newValue

\* what undo or redo does with an entry of an entity that has no record: the
\* registry stays as it is and nobody is notified, the store entry of
\* entry.id holds the value at entry.key, the cursor moves by step
Skips(entry, value, step) ==
    /\ registrations' = registrations
    /\ calls' = <<>>
    /\ getStoredConfig(store', entry.id) # <<>>
    /\ Get(store'[entry.id], entry.key) = value
    /\ history' = history
    /\ historyIndex' = historyIndex + step

\* C18: undo() or redo() whose entry refers to an entity that is no longer
\* registered completes, leaves the registry unchanged and invokes no
\* onUpdate; the Value Store entry of that identifier is still written and
\* the cursor still moves.
C18_UnregisteredEntry ==
    [][/\ \A entry \in {UndoResult(history, historyIndex)[n] : n \in 1..Len(UndoResult(history, historyIndex))} :
             (undo /\ ~MapHas(registrations, entry.id)) =>
                Skips(entry, entry.oldValue, -1)
       /\ \A entry \in {RedoResult(history, historyIndex)[n] : n \in 1..Len(RedoResult(history, historyIndex))} :
             (redo /\ ~MapHas(registrations, entry.id)) =>
                Skips(entry, entry.newValue, 1)
      ]_vars

\* A's edit from 1 to 2 was just undone while A had no record and B had one:
\* nobody was notified, A's store entry holds 1 again
C18_Witness ==
    /\ ret.op = "undo" /\ ret.val # <<>>
    /\ ret.val[1].id = "A" /\ ret.val[1].oldValue = 1 /\ ret.val[1].newValue = 2
    /\ ~MapHas(registrations, "A") /\ MapHas(registrations, "B")
    /\ calls = <<>>
    /\ getStoredConfig(store, "A") = <<[k \in SpecKeys |-> 1]>>
    /\ historyIndex = Len(history) - 2

----------------------------------------------------------------------------
(* Claims about persistence and mounting *)

\* the step invokes an entity's onSave
InvokesOnSave == \E n \in 1..Len(calls') : calls'[n].fn = "onSave"

\* the step is a call of an editing handler
Edits ==
    \/ \E id \in Ids, d \in SpecDefaults : register(id, d)
    \/ \E id \in Ids : unregister(id)
    \/ \E id \in Ids, key \in SpecKeys, value \in Values, skipHistory \in BOOLEAN :
          updateValue(id, key, value, skipHistory)
    \/ undo
    \/ redo
    \/ \E id \in Ids : resetSection(id)
    \/ resetAll

\* the step is a call of saveAll or saveSection, or the resumption of one
\* after the onSave it awaited
Saves ==
    \/ saveAll
    \/ \E id \in Ids : saveSection(id)
    \/ onSaveResolved

C20_RegisteredOnlyWhileMounted ==
    microtasks = <<>> => \A id \in Ids : MapHas(registrations, id) => id \in mounted

----------------------------------------------------------------------------
(* Claims about the course of a save batch *)

\* C21: whenever a save batch has started (isSaving is true) and every onSave
\* it awaits eventually resolves or rejects, isSaving eventually returns to
\* false, after success as well as after failure; a saveAll called while
\* isSaving is false and some change is unsaved is accepted: it sets isSaving
\* and invokes the onSave of the first change.
C21_SavingEnds ==
    /\ isSaving ~> (~isSaving /\ ~Pending(batch))
    /\ [][(saveAll /\ ~isSaving /\ unsavedChanges # <<>>) =>
             /\ isSaving' /\ Pending(batch')
             /\ calls' = <<OnSave(unsavedChanges[1])>>
         ]_vars

\* a batch of two changes ended at a rejected onSave: isSaving is false again
\* and both changes are still unsaved
C21_Witness ==
    /\ ~isSaving /\ batch # <<>> /\ batch[1].status = "rejected"
    /\ Len(batch[1].changes) = 2
    /\ Len(unsavedChanges) = 2

\* C22: once an onSave call of a batch rejects, no later onSave of that batch
\* is invoked: the rejection ends the call without an onSave, and after it
\* an onSave is invoked only by a new call of saveAll or saveSection, for the
\* first change of the list that call computed.
C22_BatchEndsAtFirstFailure ==
    [][/\ onSaveRejected =>
             /\ calls' = <<>> /\ ~Pending(batch') /\ ~isSaving'
             /\ batch'[1].pos = batch[1].pos
       /\ (batch # <<>> /\ batch[1].status = "rejected" /\ InvokesOnSave) =>
             /\ saveAll \/ \E id \in Ids : saveSection(id)
             /\ Pending(batch') /\ batch'[1].pos = 1
             /\ calls' = <<OnSave(batch'[1].changes[1])>>
      ]_vars

\* the first onSave of a batch of two changes rejected: the call returned
\* and the onSave of the second change was not invoked
C22_Witness ==
    /\ batch # <<>> /\ batch[1].status = "rejected"
    /\ Len(batch[1].changes) = 2 /\ batch[1].pos = 1
    /\ calls = <<>> /\ ~isSaving

\* C23: within a save batch the onSave calls are issued one at a time, in the
\* order of the unsaved-change list computed when the batch was invoked: a
\* step issues at most one onSave, either the first of a new batch while none
\* is pending or the next one when the pending one resolves, and the list of
\* a pending batch does not change whatever is edited meanwhile.
C23_OneAtATimeInOrder ==
    [][/\ InvokesOnSave =>
             /\ Len(calls') = 1
             /\ \/ /\ ~Pending(batch) /\ ~isSaving /\ Pending(batch')
                   /\ batch'[1].pos = 1
                   /\ \/ saveAll /\ batch'[1].changes = unsavedChanges
                      \/ \E id \in Ids :
                            /\ saveSection(id)
                            /\ batch'[1].changes = SectionChanges(unsavedChanges, id)
                   /\ calls' = <<OnSave(batch'[1].changes[1])>>
                \/ /\ Pending(batch) /\ onSaveResolved /\ Pending(batch')
                   /\ batch'[1].pos = batch[1].pos + 1
                   /\ calls' = <<OnSave(batch[1].changes[batch[1].pos + 1])>>
       /\ (Pending(batch) /\ Pending(batch')) =>
             /\ batch'[1].changes = batch[1].changes
             /\ batch'[1].pos \in {batch[1].pos, batch[1].pos + 1}
             /\ batch'[1].pos = batch[1].pos + 1 => onSaveResolved
      ]_vars

\* the first onSave of a batch of two changes resolved and the second was
\* issued, for the change as the batch captured it although the entity was
\* edited back in the meantime and only one change is unsaved now
C23_Witness ==
    /\ Pending(batch) /\ Len(batch[1].changes) = 2 /\ batch[1].pos = 2
    /\ calls = <<OnSave(batch[1].changes[2])>>
    /\ Len(unsavedChanges) = 1
    /\ unsavedChanges[1].id = batch[1].changes[1].id

\* C24: a save request with an empty dirty set is a no-op: saveAll called
\* when unsavedChanges is empty, and saveSection(id) called when id has no
\* unsaved change, leave isSaving as it was, invoke no onSave and leave the
\* registry, the store and the history unchanged.
C24_EmptySaveIsNoOp ==
    [][/\ (saveAll /\ unsavedChanges = <<>>) =>
             /\ calls' = <<>>
             /\ UNCHANGED <<isSaving, registrations, store, history, historyIndex>>
       /\ \A id \in Ids :
             (saveSection(id) /\ SectionChanges(unsavedChanges, id) = <<>>) =>
                /\ calls' = <<>>
                /\ UNCHANGED <<isSaving, registrations, store, history, historyIndex>>
      ]_vars

----------------------------------------------------------------------------
(* Claims about the consumers of the coordinator *)

\* the call recorded in r ended with an error raised to its caller
Raised(r) ==
    /\ r.val # <<>>
    /\ "kind" \in DOMAIN r.val[1]
    /\ r.val[1].kind = "error"

RequestOfEntity(id, r, key, value) ==
    [filePath |-> r.filePathRef[1], id |-> id, key |-> key, value |-> value]

\* C26: an entity's onSave(key, value) with no filePath configured resolves
\* without issuing a request; with a filePath it issues exactly one request
\* carrying {filePath, id, key, value}, resolves when the response is ok and
\* rejects when the response is not ok or the transport fails.
C26_HandleSave ==
    [][/\ \A id \in Ids, key \in Keys, value \in Values :
             handleSave(id, key, value) =>
                IF refs[id].filePathRef = <<>>
                THEN /\ fetches' = fetches
                     /\ ret'.val[1].kind = "resolved"
                ELSE /\ fetches' = Append(fetches, RequestOfEntity(id, refs[id], key, value))
                     /\ ret'.val[1].kind = "pending"
       /\ \A n \in 1..Len(fetches), outcome \in Outcomes :
             Respond(n, outcome) =>
                /\ Len(fetches') = Len(fetches) - 1
                /\ ret'.val[1].kind = IF outcome = "ok" THEN "resolved" ELSE "rejected"
      ]_vars

\* cfg holds a number, a string or a boolean at every key it has
TunableValues(cfg) == \A k \in DOMAIN cfg : cfg[k] \in Values

\* C27: in every reachable state every value held in a registered entity's
\* current configuration and in its Value Store entry is a number, a string
\* or a boolean, never undefined, register and updateValue being called with
\* such values only; this includes the states reached through undo and redo.
C27_ValuesAreTunable ==
    \A i \in 1..Len(registrations) :
       /\ TunableValues(registrations[i].currentConfig)
       /\ \A n \in 1..Len(getStoredConfig(store, registrations[i].id)) :
             TunableValues(getStoredConfig(store, registrations[i].id)[n])

----------------------------------------------------------------------------
(* Claims about the Value Store *)

----------------------------------------------------------------------------
(* Claims about the cursor of the history log *)

\* C29: after every pushHistory, whether or not it evicted the oldest entry,
\* the cursor designates the entry just appended (cursor = length - 1):
\* canRedo() is false and an undo() that follows at once returns exactly
\* that entry.
C29_CursorAtAppended ==
    [][CPush =>
          /\ historyIndex' = Len(history') - 1
          /\ history'[Len(history')] = HistoryEntry("A", "a", hval, hval + 1)
          /\ ~canRedoAt(history', historyIndex')
          /\ UndoResult(history', historyIndex') = <<history'[Len(history')]>>
      ]_vars

\* the push into a full log evicted the oldest entry and the cursor is on
\* the entry it appended: nothing to redo, undo() would return that entry
C29_Witness ==
    /\ ret.op = "pushHistory"
    /\ Len(history) = MAX_HISTORY /\ history[1].oldValue = 1
    /\ hval = MAX_HISTORY + 1
    /\ history[Len(history)].newValue = hval
    /\ ~canRedo
    /\ UndoResult(history, historyIndex) = <<history[Len(history)]>>

\* the entries returned and the cursor left by undo() followed by redo()
\* from cursor i, and by redo() followed by undo()
UndoThenRedo(h, i) ==
    [first |-> UndoResult(h, i), second |-> RedoResult(h, UndoIndex(i)),
     cursor |-> RedoIndex(h, UndoIndex(i))]

RedoThenUndo(h, i) ==
    [first |-> RedoResult(h, i), second |-> UndoResult(h, RedoIndex(h, i)),
     cursor |-> UndoIndex(RedoIndex(h, i))]

\* C30: undo and redo of the history log are mutual inverses: when canUndo()
\* holds, undo() followed by redo() returns the same entry twice and leaves
\* the log and the cursor as before; when canRedo() holds, redo() followed by
\* undo() returns the same entry twice and leaves the log and the cursor as
\* before.  Neither call changes the entries of the log.
C30_UndoRedoInverse ==
    /\ [](/\ canUndo =>
                /\ UndoThenRedo(history, historyIndex).first # <<>>
                /\ UndoThenRedo(history, historyIndex).second
                      = UndoThenRedo(history, historyIndex).first
                /\ UndoThenRedo(history, historyIndex).cursor = historyIndex
          /\ canRedo =>
                /\ RedoThenUndo(history, historyIndex).first # <<>>
                /\ RedoThenUndo(history, historyIndex).second
                      = RedoThenUndo(history, historyIndex).first
                /\ RedoThenUndo(history, historyIndex).cursor = historyIndex)
    /\ [][/\ (HUndo \/ HRedo) => history' = history
          /\ (HRedo /\ ret.op = "undo" /\ ret.val # <<>>) =>
                (ret'.val = ret.val /\ historyIndex' = historyIndex + 1)
          /\ (HUndo /\ ret.op = "redo" /\ ret.val # <<>>) =>
                (ret'.val = ret.val /\ historyIndex' = historyIndex - 1)
         ]_vars

\* of three recorded entries two were undone and the second was redone:
\* redo() returned the entry the last undo() had returned, the cursor is
\* back on it
C30_Witness ==
    /\ Len(history) = 3 /\ historyIndex = 1
    /\ ret = Returned("redo", <<history[2]>>)
    /\ canUndo /\ canRedo

----------------------------------------------------------------------------
(* LifeSpec: the provider is mounted more than once while the module of the *)
(* history log, loaded once, keeps its entries and its cursor.              *)

\* React mounts TangentProviderDev: every useState starts from its initial
\* value; history.ts and the Value Store are not part of the component
TangentProviderDev ==
    /\ registrations' = <<>>
    /\ historyState' = [canUndo |-> FALSE, canRedo |-> FALSE]
    /\ isSaving' = FALSE
    /\ batch' = <<>>
    /\ calls' = <<>>
    /\ UNCHANGED <<history, historyIndex, now, store>>

LMount == TangentProviderDev /\ UNCHANGED dvars

LRegister ==
    /\ \E id \in Ids : register(id, [k \in SpecKeys |-> 1])
    /\ UNCHANGED dvars

LUpdate ==
    /\ \E id \in MapIds(registrations), key \in SpecKeys, value \in Values :
          /\ Len(Splice(history, historyIndex)) < MaxLifeLog
          /\ updateValue(id, key, value, FALSE)
    /\ UNCHANGED dvars

LUndo == undo /\ UNCHANGED dvars

LRedo == redo /\ UNCHANGED dvars

LifeNext == LMount \/ LRegister \/ LUpdate \/ LUndo \/ LRedo

LifeSpec == Init /\ [][LifeNext]_vars

----------------------------------------------------------------------------
(* ResetSpec: two entities are edited, reset and, for A, saved by section; *)
(* ret records the last call and the entry undo obtained, hval is 1 after   *)
(* an undo that directly followed a reset.                                 *)

\* A is declared with two keys, B with one
ResetDefaults(id) == IF id = "A" THEN [k \in Keys |-> 1] ELSE [k \in SpecKeys |-> 1]

RRegister ==
    /\ \E id \in Ids : register(id, ResetDefaults(id))
    /\ ret' = Returned("register", <<>>)
    /\ hval' = 0
    /\ UNCHANGED <<saved, view, mounted, microtasks, snap, isDev, fetches, refs>>

REdit ==
    /\ \E id \in MapIds(registrations), value \in Values :
       \E key \in DOMAIN MapGet(registrations, id).currentConfig :
          /\ Len(Splice(history, historyIndex)) < MaxResetLog
          /\ updateValue(id, key, value, FALSE)
    /\ ret' = Returned("updateValue", <<>>)
    /\ hval' = 0
    /\ UNCHANGED <<saved, view, mounted, microtasks, snap, isDev, fetches, refs>>

RUndo ==
    /\ undo
    /\ ret' = Returned("undo", UndoResult(history, historyIndex))
    /\ hval' = IF ret.op \in {"resetSection", "resetAll"} THEN 1 ELSE 0
    /\ UNCHANGED <<saved, view, mounted, microtasks, snap, isDev, fetches, refs>>

RSaveSection ==
    /\ saveSection("A")
    /\ ret' = Returned("saveSection", <<>>)
    /\ hval' = 0
    /\ UNCHANGED <<saved, view, mounted, microtasks, snap, isDev, fetches, refs>>

RResolved ==
    /\ onSaveResolved
    /\ ret' = Returned("onSave", <<>>)
    /\ hval' = 0
    /\ UNCHANGED <<saved, view, mounted, microtasks, snap, isDev, fetches, refs>>

RResetSection ==
    /\ \E id \in Ids : resetSection(id) /\ ret' = Returned("resetSection", <<id>>)
    /\ hval' = 0
    /\ UNCHANGED <<saved, view, mounted, microtasks, snap, isDev, fetches, refs>>

RResetAll ==
    /\ resetAll
    /\ ret' = Returned("resetAll", <<>>)
    /\ hval' = 0
    /\ UNCHANGED <<saved, view, mounted, microtasks, snap, isDev, fetches, refs>>

ResetNext ==
    RRegister \/ REdit \/ RUndo \/ RSaveSection \/ RResolved \/ RResetSection
        \/ RResetAll

ResetSpec == Init /\ [][ResetNext]_vars

----------------------------------------------------------------------------
(* Claims about the ends of the history and about resets *)

\* the registry, the Value Store and the log are as they were and no
\* callback of an entity was invoked
NothingDone ==
    /\ UNCHANGED <<registrations, store, history, historyIndex>>
    /\ calls' = <<>>

\* C31: an undo() with nothing to undo, or a redo() with nothing to redo,
\* changes no registry, Value Store or history state, invokes no onUpdate,
\* and leaves the observable {canUndo, canRedo} equal to the values the
\* history log reports.
C31_EndsRefresh ==
    [][/\ (undo /\ ~canUndo) =>
             /\ NothingDone
             /\ historyState' = HistoryStateOf(history', historyIndex')
       /\ (redo /\ ~canRedo) =>
             /\ NothingDone
             /\ historyState' = HistoryStateOf(history', historyIndex')
      ]_vars

\* the part of C31 that the code provides: nothing is changed or notified
C31_EndsAreNoOps ==
    [][/\ (undo /\ ~canUndo) => (NothingDone /\ UNCHANGED historyState)
       /\ (redo /\ ~canRedo) => (NothingDone /\ UNCHANGED historyState)
      ]_vars

\* the calls among cs that invoke onUpdate of id for key
UpdatesOf(cs, id, key) ==
    {n \in 1..Len(cs) : cs[n].fn = "onUpdate" /\ cs[n].id = id /\ cs[n].key = key}

\* C32: resetSection(id) invokes id's onUpdate exactly once for every key of
\* its source configuration, changed or not, each time with that key's
\* source value, and invokes no onUpdate of any other entity (none at all
\* when id is not registered).
C32_ResetNotifiesEveryKey ==
    [][ret'.op = "resetSection" =>
          LET id == ret'.val[1]
          IN  IF MapHas(registrations, id)
              THEN LET src == MapGet(registrations, id).sourceConfig
                   IN  /\ \A key \in DOMAIN src :
                             /\ Cardinality(UpdatesOf(calls', id, key)) = 1
                             /\ \A n \in UpdatesOf(calls', id, key) :
                                   calls'[n].value = src[key]
                       /\ \A n \in 1..Len(calls') :
                             /\ calls'[n].fn = "onUpdate"
                             /\ calls'[n].id = id
                             /\ calls'[n].key \in DOMAIN src
              ELSE calls' = <<>>
      ]_vars

\* resetSection('A') has just run while both keys of A differed from a saved
\* source that is not the original one, and B is registered
C32_Witness ==
    /\ ret = Returned("resetSection", <<"A">>)
    /\ calls = <<OnUpdate("A", "a", 1), OnUpdate("A", "b", 2)>>
    /\ MapHas(registrations, "A") /\ MapHas(registrations, "B")
    /\ MapGet(registrations, "A").sourceConfig # MapGet(registrations, "A").originalConfig
    /\ history # <<>> /\ history[1].id = "A" /\ history[1].key = "a"

Resets == {"resetSection", "resetAll"}

\* C33: resetSection and resetAll leave the entries of the history log, the
\* cursor and the observable {canUndo, canRedo} unchanged; an undo() that
\* follows a reset returns the entry at the cursor, which is the one that
\* was there before the reset, and writes its oldValue to the Value Store
\* and to the current configuration of its entity.
C33_ResetKeepsHistory ==
    [][/\ ret'.op \in Resets =>
             /\ UNCHANGED <<history, historyIndex, historyState>>
             /\ UndoResult(history', historyIndex') = UndoResult(history, historyIndex)
       /\ (ret.op \in Resets /\ ret'.op = "undo") =>
             /\ ret'.val = UndoResult(history, historyIndex)
             /\ \A n \in 1..Len(ret'.val) :
                   LET entry == ret'.val[n]
                   IN  /\ Get(store'[entry.id], entry.key) = entry.oldValue
                       /\ MapHas(registrations', entry.id) =>
                             Get(MapGet(registrations', entry.id).currentConfig,
                                 entry.key) = entry.oldValue
                       /\ MapHas(registrations, entry.id) =>
                             calls' = <<OnUpdate(entry.id, entry.key, entry.oldValue)>>
      ]_vars

\* undo() has just returned the recorded edit of A's key a right after a
\* reset: a holds the old value again while the saved source holds the new
C33_Witness ==
    /\ ret.op = "undo" /\ hval = 1
    /\ ret.val # <<>> /\ ret.val[1].id = "A" /\ ret.val[1].key = "a"
    /\ ret.val[1].oldValue = 1 /\ ret.val[1].newValue = 2
    /\ historyIndex = -1 /\ history # <<>>
    /\ MapHas(registrations, "A")
    /\ MapGet(registrations, "A").sourceConfig["a"] = 2
    /\ MapGet(registrations, "A").currentConfig["a"] = 1

\* C34: after resetAll() every registered entity's current configuration
\* and Value Store entry equal its source configuration, so unsavedChanges
\* is empty, and each entity's record and store entry are what an
\* individual resetSection of it would have left.
C34_ResetAll ==
    [][ret'.op = "resetAll" =>
          /\ MapIds(registrations') = MapIds(registrations)
          /\ \A id \in MapIds(registrations) :
                /\ MapGet(registrations', id).currentConfig
                      = MapGet(registrations', id).sourceConfig
                /\ getStoredConfig(store', id)
                      = <<MapGet(registrations', id).sourceConfig>>
                /\ MapGet(registrations', id) = MapGet(Reset(registrations, id), id)
                /\ getStoredConfig(store', id)
                      = getStoredConfig(
                           setStoredConfig(store, id,
                                           MapGet(registrations, id).sourceConfig), id)
          /\ UnsavedChangesOf(registrations') = <<>>
      ]_vars

\* resetAll() has just run over A, whose saved source is not its original
\* configuration, and B, whose recorded edit is not undone
C34_Witness ==
    /\ ret.op = "resetAll" /\ Len(calls) = 3
    /\ MapHas(registrations, "A") /\ MapHas(registrations, "B")
    /\ MapGet(registrations, "A").sourceConfig["a"] = 2
    /\ MapGet(registrations, "A").originalConfig["a"] = 1
    /\ MapGet(registrations, "A").currentConfig["a"] = 2
    /\ history # <<>> /\ historyIndex = 0
    /\ history[1].id = "B" /\ history[1].newValue = 2
    /\ MapGet(registrations, "B").currentConfig["a"] = 1
    /\ unsavedChanges = <<>>

\* C35: a redundant reset is a defined no-op: resetSection(id) on an entity
\* whose current configuration already equals its source configuration, or
\* on an identifier that is not registered, leaves the registry, the Value
\* Store and the history unchanged; and a second resetSection(id) would
\* leave the state the first one left.
C35_RedundantReset ==
    [][ret'.op = "resetSection" =>
          LET id == ret'.val[1]
          IN  /\ (MapHas(registrations, id) =>
                     MapGet(registrations, id).currentConfig
                        = MapGet(registrations, id).sourceConfig)
                    => UNCHANGED <<registrations, store, history, historyIndex,
                                   historyState>>
              /\ Reset(registrations', id) = registrations'
              /\ MapHas(registrations', id) =>
                    setStoredConfig(store', id, MapGet(registrations', id).sourceConfig)
                       = store'
              /\ ResetCalls(registrations', id) = calls'
      ]_vars

\* resetSection('A') has just run on the registered entity A that was never
\* edited (nothing was ever recorded), next to an unregistered B
C35_Witness ==
    /\ ret = Returned("resetSection", <<"A">>)
    /\ MapHas(registrations, "A") /\ ~MapHas(registrations, "B")
    /\ history = <<>>
    /\ calls = <<OnUpdate("A", "a", 1), OnUpdate("A", "b", 1)>>
    /\ getStoredConfig(store, "A") = <<MapGet(registrations, "A").currentConfig>>

----------------------------------------------------------------------------
(* Claims about what every handler preserves *)

\* the original configuration of every record, in the order of the registry
Originals(m) == [i \in 1..Len(m) |-> <<m[i].id, m[i].originalConfig>>]

\* C36: the original configuration of a record is never modified after
\* registration: every step leaves the original configurations as they
\* were, unless it is a register call for the entity whose originalConfig
\* it changes or whose record it creates, and the originalConfig is
\* then the defaults passed to that call; updateValue, undo, redo, saveAll,
\* saveSection, resetSection, resetAll and the resumption of a save leave it
\* alone.
C36_OriginalIsImmutable ==
    [][\/ Originals(registrations') = Originals(registrations)
       \/ \A id \in Ids :
             MapHas(registrations', id) =>
                \/ /\ MapHas(registrations, id)
                   /\ MapGet(registrations', id).originalConfig
                         = MapGet(registrations, id).originalConfig
                \/ \E d \in DefaultConfigs :
                      /\ MapGet(registrations', id).originalConfig = d
                      /\ register(id, d)
      ]_vars

\* A was registered with {a: 1}, edited, saved and the edit undone: source
\* and current configuration have both moved, the original has not
C36_Witness ==
    /\ MapHas(registrations, "A")
    /\ MapGet(registrations, "A").originalConfig = [k \in {"a"} |-> 1]
    /\ MapGet(registrations, "A").sourceConfig = [k \in {"a"} |-> 2]
    /\ MapGet(registrations, "A").currentConfig = [k \in {"a"} |-> 1]
    /\ history # <<>> /\ historyIndex = -1
    /\ ~isSaving

\* C37: within one provider lifetime that starts from an empty history, in
\* every state reached by updateValue, undo, redo, resetSection, resetAll,
\* saveAll, saveSection, register and unregister, the observable
\* historyState.canUndo and historyState.canRedo equal the history log's
\* canUndo() and canRedo().
C37_HistoryStateInStep ==
    /\ historyState.canUndo = canUndo
    /\ historyState.canRedo = canRedo

\* the recorded edit of A was undone and A was saved since: nothing to undo,
\* one entry to redo, and the provider shows just that
C37_Witness ==
    /\ history # <<>> /\ historyIndex = -1
    /\ historyState = [canUndo |-> FALSE, canRedo |-> TRUE]
    /\ MapHas(registrations, "A")
    /\ batch # <<>> /\ batch[1].status = "resolved"

\* C38: with a working Value Store, in every reachable state the Value Store
\* entry of every registered entity equals that entity's current
\* configuration.
C38_StoreIsCurrent ==
    \A id \in MapIds(registrations) :
       getStoredConfig(store, id) = <<MapGet(registrations, id).currentConfig>>

\* A was edited and then registered again with one more key: its current
\* configuration is the stored one, not the defaults
C38_Witness ==
    /\ MapHas(registrations, "A")
    /\ MapGet(registrations, "A").originalConfig = [k \in Keys |-> IF k = "a" THEN 1 ELSE 2]
    /\ MapGet(registrations, "A").currentConfig = [k \in {"a"} |-> 2]
    /\ getStoredConfig(store, "A") = <<[k \in {"a"} |-> 2]>>
    /\ historyIndex = 0

----------------------------------------------------------------------------
(* Claims about edits made while a save is in flight *)

\* the batch b passed value to an onSave for the pair (id, key)
PassedToOnSave(b, id, key, value) ==
    \E n \in 1..Len(b.changes) :
       /\ b.changes[n].id = id
       /\ b.changes[n].key = key
       /\ b.changes[n].newValue = value

\* unsavedChanges, computed from m, reports value as the unsaved value of
\* the pair (id, key)
Reported(m, id, key, value) ==
    \E n \in 1..Len(UnsavedChangesOf(m)) :
       /\ UnsavedChangesOf(m)[n].id = id
       /\ UnsavedChangesOf(m)[n].key = key
       /\ UnsavedChangesOf(m)[n].newValue = value

\* the last onSave of the batch resolves and the save call returns
Completes == Pending(batch) /\ batch' # <<>> /\ batch'[1].status = "resolved"

\* an unsaved value, none of those the batch b passed to onSave, is still
\* reported once the batch has completed
UnsavedStaysReported(b) ==
    \A id \in MapIds(registrations) :
       \A key \in DOMAIN MapGet(registrations, id).currentConfig :
          LET value == MapGet(registrations, id).currentConfig[key]
          IN  (/\ Reported(registrations, id, key, value)
               /\ ~PassedToOnSave(b, id, key, value)) =>
                  Reported(registrations', id, key, value)

\* C39: an edit applied by updateValue, or a value restored by undo/redo,
\* while a save batch is in flight, whose value was not passed to any onSave
\* of that batch, is still reported by unsavedChanges after the batch
\* completes successfully.
C39_UnsavedEditsSurvive ==
    [][Completes => UnsavedStaysReported(batch[1])]_vars

\* the same for the batches of saveSection alone
C39_SectionOnly ==
    [][(Completes /\ batch[1].kind = "section") => UnsavedStaysReported(batch[1])]_vars

====
